---- MODULE Spec2Model ----
(***************************************************************************)
(* Model of the duplex session controller of the voice gateway:            *)
(* VoiceLiveCommunicationHandler (src/app/voice_live_handler.py) driven by  *)
(* the telephony WebSocket endpoint ws (src/app/main.py).                   *)
(*                                                                         *)
(* Two asyncio tasks run per call: the receive loop of the handler, which   *)
(* takes one voice-service message at a time and runs its handler to the    *)
(* end, and the telephony loop of ws.  The only place where the receive     *)
(* loop is suspended for an unbounded time is the await of a tool handler,  *)
(* so that await is a position of the receive loop (pc = "tool").           *)
(***************************************************************************)
EXTENDS Integers, Sequences, FiniteSets, TLC

(* ------------------------------ bounds --------------------------------- *)

NumResponses == 2
NumItems == 2

(* --------------------------- program constants ------------------------- *)

GraceMs == 10000
MinStreamMs == 200

(* ------------------------------ values --------------------------------- *)

None == "None"

(* None, for a timestamp                                                   *)
NoTime == -1

Truthy(x) == x # None /\ x # ""

RId(i) == "R" \o ToString(i)
IId(i) == "i" \o ToString(i)

ResponseIds == {RId(i) : i \in 1..NumResponses}
ItemIds == {IId(i) : i \in 1..NumItems}
CallIds == {"c1"}

(* Instants (ms since the process started) at which the clock is read.     *)
Instants == {0, 3000, 12000, 12100}

(* Functions registered in the agent configuration, and a name that is not. *)
RegisteredFunctions == {"lookup_employee"}
FunctionNames == RegisteredFunctions \cup {"no_such_function"}

(* Argument payloads as token sequences.                                   *)
ArgsObject == <<"{", "str", ":", "str", "}">>
ArgsBad == <<"{", "bad", "json">>
ArgsAbsent == << >>

RECURSIVE ParseValue(_, _), ParseMembers(_, _)
ParseValue(s, i) ==
    IF i > Len(s) THEN 0
    ELSE IF s[i] \in {"str", "num"} THEN i + 1
    ELSE IF s[i] = "{"
         THEN IF i + 1 <= Len(s) /\ s[i + 1] = "}" THEN i + 2
              ELSE ParseMembers(s, i + 1)
         ELSE 0

ParseMembers(s, i) ==
    IF i + 1 > Len(s) \/ s[i] # "str" \/ s[i + 1] # ":" THEN 0
    ELSE LET j == ParseValue(s, i + 2) IN
         IF j = 0 \/ j > Len(s) THEN 0
         ELSE IF s[j] = "}" THEN j + 1
         ELSE IF s[j] = "," THEN ParseMembers(s, j + 1)
         ELSE 0

JsonLoadsOk(s) == ParseValue(s, 1) = Len(s) + 1

(* message.get("arguments", "{}") followed by json.loads                   *)
ArgumentsParse(e) ==
    IF e.arguments = ArgsAbsent THEN TRUE ELSE JsonLoadsOk(e.arguments)

(* json.dumps({"success": False, "error": msg})                            *)
DumpsFailure(msg) == "{\"success\": false, \"error\": \"" \o msg \o "\"}"

(* a registry that falls back to some handler for a name it does not know  *)
get_function_handler_Fallback(name) == TRUE

(* agent_config.get_function_handler(name) is not None                     *)
get_function_handler(name) == name \in RegisteredFunctions

(* ------------------------------ events --------------------------------- *)

Ev(type, rid, item, itype, role, delta, name, call, args, err) ==
    [type |-> type, response_id |-> rid, item_id |-> item, item_type |-> itype,
     role |-> role, delta |-> delta, name |-> name, call_id |-> call,
     arguments |-> args, err |-> err]

Plain(type) == Ev(type, "", "", "", "", "", "", "", ArgsAbsent, "")
WithRid(type, rid) == Ev(type, rid, "", "", "", "", "", "", ArgsAbsent, "")

(* The voice service creates each output item for one response: the       *)
(* response_id that response.output_item.added carries for an item id.     *)
ItemResponse(item) ==
    CHOOSE r \in ResponseIds :
        \E k \in 1..NumItems : item = IId(k) /\ r = RId(((k - 1) % NumResponses) + 1)

LogOnlyTypes == {"session.updated", "conversation.item.truncated"}

UnknownTypes == {"rate_limits.updated"}

(* The voice service names each turn once: response.created carries a     *)
(* fresh id (see HandleVoiceLiveMessage); every other message may carry    *)
(* any id, so stale and out-of-order messages are among the inputs.        *)
TurnEvents ==
    {Plain(t) : t \in LogOnlyTypes \cup UnknownTypes}
    \cup {Plain("input_audio_buffer.speech_started")}
    \cup {Ev("conversation.item.created", "", "", "message", r, "", "", "", ArgsAbsent, "")
            : r \in {"user", "assistant"}}
    \cup {WithRid(t, r) : t \in {"response.created", "response.done", "response.cancelled",
                                 "output_audio_buffer.cleared"},
                          r \in ResponseIds}
    \cup {Ev("response.output_item.added", ItemResponse(i), i, "", "", "", "", "", ArgsAbsent, "")
            : i \in ItemIds}
    \cup {Ev("response.audio.delta", r, "", "", "", "pcm", "", "", ArgsAbsent, "")
            : r \in ResponseIds}
    \cup {Ev("response.audio.delta", RId(1), "", "", "", "", "", "", ArgsAbsent, "")}

ToolEvents ==
    {Ev("response.function_call_arguments.done", r, "", "", "", "", "lookup_employee", c, ArgsObject, "")
            : r \in ResponseIds, c \in CallIds}
    \cup {Ev("response.function_call_arguments.done", RId(1), "", "", "", "", n, c, a, "")
            : n \in FunctionNames, c \in CallIds, a \in {ArgsObject, ArgsBad}}
    \cup {Ev("response.function_call_arguments.done", RId(1), "", "", "", "", "", "c1", ArgsObject, ""),
          Ev("response.function_call_arguments.done", RId(1), "", "", "", "", "lookup_employee", "", ArgsObject, "")}

ErrorEvents ==
    {Ev("error", "", "", "", "", "", "", "", ArgsAbsent, k) : k \in {"invalid_voice", "other"}}

VoiceEvents == TurnEvents \cup ToolEvents \cup ErrorEvents

(* Steps of the environment and of the telephony loop, recorded in `last`. *)
Note(type) == Plain(type)

(* ------------------------------- trail --------------------------------- *)
(* What one step did, in program order: messages handed to the upstream     *)
(* socket ("up"), messages handed to the telephony socket ("acs"), writes   *)
(* of the turn state ("set") and handler invocations ("call").  ok is       *)
(* FALSE for a send that raised.                                            *)

Op(kind, type, arg, body, ok) ==
    [kind |-> kind, type |-> type, arg |-> arg, body |-> body, ok |-> ok]

Up(type, arg, body, ok) == Op("up", type, arg, body, ok)

RECURSIVE SelectOps(_, _)
SelectOps(t, kind) ==
    IF t = << >> THEN << >>
    ELSE IF t[1].kind = kind /\ t[1].ok THEN <<t[1]>> \o SelectOps(Tail(t), kind)
    ELSE SelectOps(Tail(t), kind)

(* Messages that reached the voice service / the telephony socket.         *)
SentUp(t) == SelectOps(t, "up")
SentAcs(t) == SelectOps(t, "acs")

RECURSIVE Attempts(_)
Attempts(t) ==
    IF t = << >> THEN << >>
    ELSE IF t[1].kind = "up" THEN <<t[1].type>> \o Attempts(Tail(t))
    ELSE Attempts(Tail(t))

Types(t) == [i \in 1..Len(t) |-> t[i].type]

(* ------------------------------ state ---------------------------------- *)

VARIABLES
    pc,                        \* receive loop: "new", "recv", "tool", "stopped", "failed"
    wsLoop,                    \* telephony loop of ws: "accepted", "loop", "done"
    acsConnected,              \* active_websocket.client_state == CONNECTED
    vlOpen,                    \* the upstream WebSocket is open
    is_connected,
    current_response_id,
    is_streaming_audio,
    response_items,
    call_start_time,
    audio_stream_start_time,
    voice_override_sent,
    voice_override_fallback_done,
    pendingCall,               \* the function call whose handler is being awaited
    now,                       \* time.time() in ms
    last,                      \* the message or operation handled by the last step
    trail,                     \* what the last step did
    interrupted,               \* response ids on which the interruption sequence ran
    created                    \* response ids announced by a response.created

vars == <<pc, wsLoop, acsConnected, vlOpen, is_connected, current_response_id,
          is_streaming_audio, response_items, call_start_time,
          audio_stream_start_time, voice_override_sent,
          voice_override_fallback_done, pendingCall, now, last, trail,
          interrupted, created>>

turn == <<current_response_id, is_streaming_audio, response_items>>

NoCall == Plain("none")

Init ==
    /\ pc = "new"
    /\ wsLoop = "accepted"
    /\ acsConnected = TRUE
    /\ vlOpen = FALSE
    /\ is_connected = FALSE
    /\ current_response_id = None
    /\ is_streaming_audio = FALSE
    /\ response_items = << >>
    /\ call_start_time = NoTime
    /\ audio_stream_start_time = NoTime
    /\ voice_override_sent = FALSE
    /\ voice_override_fallback_done = FALSE
    /\ pendingCall = NoCall
    /\ now = 0
    /\ last = Note("init")
    /\ trail = << >>
    /\ interrupted = {}
    /\ created = {}

(* --------------------- one run of a message handler --------------------- *)
(* A handler is computed as a record: the turn state it leaves, its trail,  *)
(* the exception that reaches the receive loop ("" for none, "closed" for   *)
(* websockets.exceptions.ConnectionClosed, "fatal" for any other), whether  *)
(* it is left awaiting a tool handler, and whether the interruption         *)
(* sequence ran.  budget is the number of upstream sends that succeed       *)
(* before the upstream socket closes; every later send raises.              *)

St ==
    [cur |-> current_response_id, streaming |-> is_streaming_audio,
     items |-> response_items, sstart |-> audio_stream_start_time,
     fb |-> voice_override_fallback_done,
     tr |-> << >>, raised |-> "", await |-> FALSE, intr |-> FALSE,
     relay |-> TRUE]

(* Largest number of upstream sends one handler can attempt.               *)
MaxBudget == NumItems + 3

NumUp(t) == Len(Attempts(t))

(* sends attempted one after the other, each in its own try/except;        *)
(* used counts the upstream sends attempted earlier in the handler          *)
Guarded(sends, budget, used) ==
    [i \in 1..Len(sends) |->
        Up(sends[i][1], sends[i][2], sends[i][3], used + i <= budget)]

(* sends attempted one after the other with no try/except: the first one   *)
(* that raises ends the sequence                                           *)
Unguarded(sends, budget, used) ==
    LET all == Guarded(sends, budget, used)
        firstBad == IF \E i \in 1..Len(all) : ~all[i].ok
                    THEN CHOOSE i \in 1..Len(all) :
                            ~all[i].ok /\ \A j \in 1..(i - 1) : all[j].ok
                    ELSE Len(all)
    IN SubSeq(all, 1, firstBad)

AllOk(t) == \A i \in 1..Len(t) : t[i].ok

(* a send that writes to the telephony socket whatever its state           *)
send_message_async_Unchecked(kind, data) == <<Op("acs", kind, data, "", TRUE)>>

(* send_message_async: written to the telephony socket only when CONNECTED *)
send_message_async(kind, data) ==
    IF acsConnected THEN <<Op("acs", kind, data, "", TRUE)>> ELSE << >>

(* a relay that hands each frame to the telephony socket twice             *)
receive_audio_Twice(st, data) ==
    IF ~st.streaming THEN st
    ELSE [st EXCEPT !.tr = @ \o send_message_async("AudioData", data)
                              \o send_message_async("AudioData", data)]

(* receive_audio (lines 850-869).  st.relay is FALSE when send_text of the *)
(* telephony socket raises: send_message_async re-raises (306-308) and     *)
(* receive_audio logs the exception (868-869).                             *)
receive_audio(st, data) ==
    IF ~st.streaming THEN st
    ELSE LET sent == send_message_async("AudioData", data)
         IN [st EXCEPT !.tr = @ \o [i \in 1..Len(sent) |-> [sent[i] EXCEPT !.ok = st.relay]]]

(* _handle_user_interruption                                               *)
InterruptionSends(st) ==
    (IF Truthy(st.cur) THEN <<<<"response.cancel", "", "">>>> ELSE << >>)
    \o <<<<"input_audio_buffer.clear", "", "">>>>
    \o [i \in 1..Len(st.items) |-> <<"conversation.item.truncate", st.items[i], "">>]

(* an interruption that sends response.cancel before it closes the relay   *)
(* gate                                                                    *)
handle_user_interruption_CancelFirst(st, budget) ==
    LET before == Guarded(InterruptionSends(st), budget, NumUp(st.tr))
        after == Guarded(<<<<"output_audio_buffer.clear", "", "">>>>, budget,
                         NumUp(st.tr) + Len(before))
    IN [st EXCEPT
          !.streaming = FALSE,
          !.sstart = NoTime,
          !.cur = None,
          !.items = << >>,
          !.intr = TRUE,
          !.tr = @ \o <<before[1]>>
                   \o <<Op("set", "is_streaming_audio", "False", "", TRUE)>>
                   \o Tail(before)
                   \o <<Op("set", "current_response_id", "None", "", TRUE)>>
                   \o after]

(* an interruption whose sends share one try block: the first send that    *)
(* raises ends it, before the turn state is reset                          *)
handle_user_interruption_FailFast(st, budget) ==
    LET sends == Unguarded(InterruptionSends(st), budget, NumUp(st.tr))
        after == Guarded(<<<<"output_audio_buffer.clear", "", "">>>>, budget,
                         NumUp(st.tr) + Len(sends))
        gate == <<Op("set", "is_streaming_audio", "False", "", TRUE)>>
    IN IF AllOk(sends)
       THEN [st EXCEPT
               !.streaming = FALSE,
               !.sstart = NoTime,
               !.cur = None,
               !.items = << >>,
               !.intr = TRUE,
               !.tr = @ \o gate \o sends
                        \o <<Op("set", "current_response_id", "None", "", TRUE)>>
                        \o after]
       ELSE [st EXCEPT
               !.streaming = FALSE,
               !.sstart = NoTime,
               !.intr = TRUE,
               !.raised = "closed",
               !.tr = @ \o gate \o sends]

handle_user_interruption(st, budget) ==
    LET before == Guarded(InterruptionSends(st), budget, NumUp(st.tr))
        after == Guarded(<<<<"output_audio_buffer.clear", "", "">>>>, budget,
                         NumUp(st.tr) + Len(before))
    IN [st EXCEPT
          !.streaming = FALSE,
          !.sstart = NoTime,
          !.cur = None,
          !.items = << >>,
          !.intr = TRUE,
          !.tr = @ \o <<Op("set", "is_streaming_audio", "False", "", TRUE)>>
                   \o before
                   \o <<Op("set", "current_response_id", "None", "", TRUE)>>
                   \o after]

(* _handle_function_call: the sends of a result and of the continuation    *)
ToolResult(call_id, output) == <<"conversation.item.create", call_id, output>>
Continuation == <<"response.create", "", "">>

InvalidArgumentsOutput == DumpsFailure("Invalid function arguments received")
NotFoundOutput(name) == DumpsFailure("Function " \o name \o " not found")
ProcessingErrorOutput(name) == DumpsFailure("Error processing " \o name)

(* an except branch that reports the failure and asks for no continuation  *)
FunctionCallExcept_NoContinuation(st, name, call_id, budget) ==
    LET t == Unguarded(<<ToolResult(call_id, ProcessingErrorOutput(name))>>,
                       budget, NumUp(st.tr))
    IN [st EXCEPT !.tr = @ \o t,
                  !.raised = IF AllOk(t) THEN "" ELSE "closed"]

(* the except branch of _handle_function_call (lines 729-746)              *)
FunctionCallExcept(st, name, call_id, budget) ==
    LET t == Unguarded(<<ToolResult(call_id, ProcessingErrorOutput(name)), Continuation>>,
                       budget, NumUp(st.tr))
    IN [st EXCEPT !.tr = @ \o t,
                  !.raised = IF AllOk(t) THEN "" ELSE "closed"]

(* the sends of the try block (lines 709-725); a send that raises is       *)
(* handled by the except branch                                            *)
FunctionCallDeliver(st, name, call_id, output, budget) ==
    LET t == Unguarded(<<ToolResult(call_id, output), Continuation>>, budget, NumUp(st.tr))
        st1 == [st EXCEPT !.tr = @ \o t]
    IN IF AllOk(t) THEN st1 ELSE FunctionCallExcept(st1, name, call_id, budget)

(* a dispatcher that answers unparsable arguments with the failure result  *)
(* alone, as the rtclient-based handler does                               *)
handle_function_call_ResultOnly(st, e, budget) ==
    IF ~Truthy(e.name) \/ ~Truthy(e.call_id) THEN st
    ELSE IF ~ArgumentsParse(e)
    THEN LET t == Unguarded(<<ToolResult(e.call_id, InvalidArgumentsOutput)>>,
                            budget, NumUp(st.tr))
         IN [st EXCEPT !.tr = @ \o t,
                       !.raised = IF AllOk(t) THEN "" ELSE "closed"]
    ELSE IF get_function_handler(e.name)
    THEN [st EXCEPT !.tr = @ \o <<Op("call", e.name, e.call_id, "", TRUE)>>,
                    !.await = TRUE]
    ELSE FunctionCallDeliver(st, e.name, e.call_id, NotFoundOutput(e.name), budget)

(* a dispatcher that answers a call without a name as an unknown function *)
handle_function_call_NoSkip(st, e, budget) ==
    IF ~ArgumentsParse(e)
    THEN LET t == Unguarded(<<ToolResult(e.call_id, InvalidArgumentsOutput), Continuation>>,
                            budget, NumUp(st.tr))
         IN [st EXCEPT !.tr = @ \o t,
                       !.raised = IF AllOk(t) THEN "" ELSE "closed"]
    ELSE IF get_function_handler(e.name)
    THEN [st EXCEPT !.tr = @ \o <<Op("call", e.name, e.call_id, "", TRUE)>>,
                    !.await = TRUE]
    ELSE FunctionCallDeliver(st, e.name, e.call_id, NotFoundOutput(e.name), budget)

(* _handle_function_call up to the await of the tool handler               *)
handle_function_call(st, e, budget) ==
    IF ~Truthy(e.name) \/ ~Truthy(e.call_id) THEN st
    ELSE IF ~ArgumentsParse(e)
    THEN LET t == Unguarded(<<ToolResult(e.call_id, InvalidArgumentsOutput), Continuation>>,
                            budget, NumUp(st.tr))
         IN [st EXCEPT !.tr = @ \o t,
                       !.raised = IF AllOk(t) THEN "" ELSE "closed"]
    ELSE IF get_function_handler(e.name)
    THEN [st EXCEPT !.tr = @ \o <<Op("call", e.name, e.call_id, "", TRUE)>>,
                    !.await = TRUE]
    ELSE FunctionCallDeliver(st, e.name, e.call_id, NotFoundOutput(e.name), budget)

(* ------------------- the cases of _handle_voice_live_message ------------ *)

(* a default case that rejects what it does not know                       *)
CaseLogOnly_Raises(st, e, budget) ==
    IF e.type \in UnknownTypes THEN [st EXCEPT !.raised = "fatal"] ELSE st

(* a case that only logs                                                   *)
CaseLogOnly(st, e, budget) == st

(* a user message that interrupts only a turn whose relay gate is open     *)
CaseItemCreated_ChecksStreaming(st, e, budget) ==
    IF e.item_type = "message" /\ e.role = "user" /\ Truthy(st.cur) /\ st.streaming
    THEN handle_user_interruption(st, budget)
    ELSE st

(* case "conversation.item.created" (lines 359-367)                        *)
CaseItemCreated(st, e, budget) ==
    IF e.item_type = "message" /\ e.role = "user" /\ Truthy(st.cur)
    THEN handle_user_interruption(st, budget)
    ELSE st

(* case "response.created" (lines 382-388)                                 *)
CaseResponseCreated(st, e, budget) ==
    [st EXCEPT !.cur = e.response_id,
               !.streaming = TRUE,
               !.sstart = now,
               !.items = << >>]

(* a completion that clears the turn and leaves the relay gate open        *)
CaseResponseDone_GateOpen(st, e, budget) ==
    [st EXCEPT !.cur = None,
               !.items = << >>]

(* case "response.done" (lines 390-396)                                    *)
CaseResponseDone(st, e, budget) ==
    [st EXCEPT !.cur = None,
               !.streaming = FALSE,
               !.sstart = NoTime,
               !.items = << >>]

(* case "response.output_item.added" (lines 398-404)                       *)
CaseOutputItemAdded(st, e, budget) ==
    IF Truthy(e.item_id) /\ \A i \in 1..Len(st.items) : st.items[i] # e.item_id
    THEN [st EXCEPT !.items = Append(@, e.item_id)]
    ELSE st

(* an audio case that relays every frame, whatever the relay gate says     *)
CaseAudioDelta_Ungated(st, e, budget) ==
    IF Truthy(e.delta)
    THEN [st EXCEPT !.tr = @ \o send_message_async("AudioData", e.delta)]
    ELSE st

(* case "response.audio.delta" (lines 407-418)                             *)
CaseAudioDelta(st, e, budget) ==
    IF Truthy(e.delta)
    THEN IF ~st.streaming THEN st ELSE receive_audio(st, e.delta)
    ELSE st

(* case "response.function_call_arguments.done" (lines 429-434)            *)
CaseFunctionCallDone(st, e, budget) == handle_function_call(st, e, budget)

(* a first speech_started case that interrupts an active turn at once      *)
CaseSpeechStarted_NoGrace(st, e, budget) ==
    IF Truthy(st.cur) /\ st.streaming THEN handle_user_interruption(st, budget) ELSE st

(* a first speech_started case that honours the grace window and not the   *)
(* minimum streaming time                                                  *)
CaseSpeechStarted_NoMinStream(st, e, budget) ==
    IF call_start_time # NoTime /\ now - call_start_time < GraceMs THEN st
    ELSE IF Truthy(st.cur) /\ st.streaming THEN handle_user_interruption(st, budget)
    ELSE st

(* first case "input_audio_buffer.speech_started" (lines 436-438)          *)
CaseSpeechStarted(st, e, budget) == st

(* second case "input_audio_buffer.speech_started" (lines 448-471)         *)
CaseSpeechStartedGuarded(st, e, budget) ==
    IF call_start_time # NoTime /\ now - call_start_time < GraceMs THEN st
    ELSE IF Truthy(st.cur) /\ st.streaming
    THEN IF st.sstart = NoTime
         THEN [st EXCEPT !.raised = "fatal"]
         ELSE IF now - st.sstart < MinStreamMs THEN st
         ELSE handle_user_interruption(st, budget)
    ELSE st

(* second case "response.audio.delta" (lines 514-518)                      *)
CaseAudioDeltaPlain(st, e, budget) ==
    IF Truthy(e.delta) THEN receive_audio(st, e.delta) ELSE st

(* is_voice_error of case "error" (lines 547-555)                          *)
IsVoiceError(err) == err \in {"invalid_update_message", "invalid_voice", "session.voice"}

(* an error case that applies the fallback on every voice error            *)
CaseError_Repeats(st, e, budget) ==
    IF voice_override_sent /\ IsVoiceError(e.err)
    THEN LET upd == Guarded(<<<<"session.update", "fallback", "">>>>, budget, NumUp(st.tr))
         IN IF ~AllOk(upd)
            THEN [st EXCEPT !.tr = @ \o upd]
            ELSE [st EXCEPT !.fb = TRUE,
                            !.tr = @ \o upd
                                     \o Guarded(<<Continuation>>, budget, NumUp(st.tr) + 1)]
    ELSE st

(* case "error" (lines 534-604)                                            *)
CaseError(st, e, budget) ==
    IF voice_override_sent /\ ~st.fb /\ IsVoiceError(e.err)
    THEN LET upd == Guarded(<<<<"session.update", "fallback", "">>>>, budget, NumUp(st.tr))
         IN IF ~AllOk(upd)
            THEN [st EXCEPT !.tr = @ \o upd]
            ELSE [st EXCEPT !.fb = TRUE,
                            !.tr = @ \o upd
                                     \o Guarded(<<Continuation>>, budget, NumUp(st.tr) + 1)]
    ELSE st

(* a cancellation confirmation that forgets the turn and leaves the relay  *)
(* gate as it is                                                           *)
CaseResponseCancelled_KeepsGate(st, e, budget) ==
    IF e.response_id = st.cur THEN [st EXCEPT !.cur = None, !.sstart = NoTime] ELSE st

(* a cancellation confirmation that resets the turn whatever its id        *)
CaseResponseCancelled_AnyId(st, e, budget) ==
    [st EXCEPT !.cur = None, !.streaming = FALSE, !.sstart = NoTime]

(* case "response.cancelled" (lines 606-615)                               *)
CaseResponseCancelled(st, e, budget) ==
    IF e.response_id = st.cur
    THEN [st EXCEPT !.cur = None, !.streaming = FALSE, !.sstart = NoTime]
    ELSE st

(* a buffer-cleared confirmation that closes the relay gate whatever its id *)
CaseOutputBufferCleared_AnyId(st, e, budget) == [st EXCEPT !.streaming = FALSE]

(* case "output_audio_buffer.cleared" (lines 633-641)                      *)
CaseOutputBufferCleared(st, e, budget) ==
    IF e.response_id = st.cur THEN [st EXCEPT !.streaming = FALSE] ELSE st

(* The case labels of the match statement, in source order.                *)
CaseLabels ==
    << "session.created",                                         \*  1  l.353
       "session.updated",                                         \*  2  l.356
       "conversation.item.created",                               \*  3  l.359
       "conversation.item.input_audio_transcription.completed",   \*  4  l.369
       "response.created",                                        \*  5  l.382
       "response.done",                                           \*  6  l.390
       "response.output_item.added",                              \*  7  l.398
       "response.audio.delta",                                    \*  8  l.407
       "response.audio.done",                                     \*  9  l.420
       "response.audio_transcript.done",                          \* 10  l.425
       "response.function_call_arguments.done",                   \* 11  l.429
       "input_audio_buffer.speech_started",                       \* 12  l.436
       "input_audio_buffer.speech_stopped",                       \* 13  l.440
       "input_audio_buffer.committed",                            \* 14  l.444
       "input_audio_buffer.speech_started",                       \* 15  l.448
       "input_audio_buffer.speech_stopped",                       \* 16  l.473
       "input_audio_buffer.committed",                            \* 17  l.476
       "conversation.item.created",                               \* 18  l.479
       "response.created",                                        \* 19  l.484
       "conversation.item.input_audio_transcription.completed",   \* 20  l.488
       "conversation.item.input_audio_transcription.failed",      \* 21  l.500
       "response.done",                                           \* 22  l.503
       "response.audio_transcript.delta",                         \* 23  l.506
       "response.audio_transcript.done",                          \* 24  l.511
       "response.audio.delta",                                    \* 25  l.514
       "response.function_call_arguments.done",                   \* 26  l.520
       "response.function_call_arguments.delta",                  \* 27  l.524
       "conversation.item.input_audio_transcription.failed",      \* 28  l.530
       "error",                                                   \* 29  l.534
       "response.cancelled",                                      \* 30  l.606
       "conversation.item.truncated",                             \* 31  l.617
       "input_audio_buffer.cleared",                              \* 32  l.629
       "output_audio_buffer.cleared",                             \* 33  l.633
       "error" >>                                                 \* 34  l.643

(* match: the first case whose label equals the type; 0 is `case _`.       *)
RECURSIVE FirstLabel(_, _)
FirstLabel(type, i) ==
    IF i > Len(CaseLabels) THEN 0
    ELSE IF CaseLabels[i] = type THEN i
    ELSE FirstLabel(type, i + 1)

MatchedCase(type) == FirstLabel(type, 1)

CaseBody(k, st, e, budget) ==
    CASE k = 3 -> CaseItemCreated(st, e, budget)
      [] k = 5 -> CaseResponseCreated(st, e, budget)
      [] k = 6 -> CaseResponseDone(st, e, budget)
      [] k = 7 -> CaseOutputItemAdded(st, e, budget)
      [] k = 8 -> CaseAudioDelta(st, e, budget)
      [] k = 11 -> CaseFunctionCallDone(st, e, budget)
      [] k = 12 -> CaseSpeechStarted(st, e, budget)
      [] k = 15 -> CaseSpeechStartedGuarded(st, e, budget)
      [] k = 25 -> CaseAudioDeltaPlain(st, e, budget)
      [] k = 26 -> CaseFunctionCallDone(st, e, budget)
      [] k = 29 -> CaseError(st, e, budget)
      [] k = 30 -> CaseResponseCancelled(st, e, budget)
      [] k = 33 -> CaseOutputBufferCleared(st, e, budget)
      [] OTHER -> CaseLogOnly(st, e, budget)

(* _handle_voice_live_message                                              *)
handle_voice_live_message(st, e, budget) ==
    CaseBody(MatchedCase(e.type), st, e, budget)

(* ------------------------------ actions -------------------------------- *)

Budgets == 0..MaxBudget

(* a session set-up that asks for the greeting before it configures the    *)
(* session                                                                 *)
SessionSetup_GreetingFirst ==
    << <<"response.create", "", "">>,
       <<"session.update", "voice", "">>,
       <<"conversation.item.create", "greeting", "Hello">> >>

SessionSetup ==
    << <<"session.update", "voice", "">>,
       <<"conversation.item.create", "greeting", "Hello">>,
       <<"response.create", "", "">> >>

(* one call of websockets.connect (lines 119-126): reason is "" when it    *)
(* returns a socket, and otherwise what the exception it raises says       *)
Connect(reason) == Op("connect", "websockets.connect", reason, "", reason = "")

(* what a failing websockets.connect reports: a rate-limit signal or a     *)
(* refused handshake                                                       *)
ConnectFailures == {"429", "refused"}

(* ws accepts the call and start_conversation_async succeeds: connect,     *)
(* _configure_session, then the receive loop is started (main.py 540-546,   *)
(* voice_live_handler.py 82-138)                                           *)
StartConversation ==
    /\ pc = "new" /\ wsLoop = "accepted"
    /\ pc' = "recv"
    /\ wsLoop' = "loop"
    /\ vlOpen' = TRUE
    /\ is_connected' = TRUE
    /\ call_start_time' = now
    /\ voice_override_sent' = TRUE
    /\ trail' = <<Connect("")>> \o Unguarded(SessionSetup, MaxBudget, 0)
    /\ last' = Note("start")
    /\ UNCHANGED <<acsConnected, current_response_id, is_streaming_audio,
                   response_items, audio_stream_start_time,
                   voice_override_fallback_done, pendingCall, now, interrupted, created>>

(* a failed connection after which ws goes on to its receive loop          *)
StartConnectFails_KeepsCall(reason) ==
    /\ pc = "new" /\ wsLoop = "accepted"
    /\ pc' = "failed"
    /\ wsLoop' = "loop"
    /\ trail' = <<Connect(reason)>>
    /\ last' = [Note("connect failed") EXCEPT !.err = reason]
    /\ UNCHANGED <<acsConnected, vlOpen, is_connected, current_response_id,
                   is_streaming_audio, response_items, call_start_time,
                   audio_stream_start_time, voice_override_sent,
                   voice_override_fallback_done, pendingCall, now, interrupted, created>>

(* websockets.connect raises: start_conversation_async re-raises (lines    *)
(* 140-142) and ws closes the telephony socket (main.py 547-552)           *)
StartConnectFails(reason) ==
    /\ pc = "new" /\ wsLoop = "accepted"
    /\ pc' = "failed"
    /\ wsLoop' = "done"
    /\ acsConnected' = FALSE
    /\ trail' = <<Connect(reason)>>
    /\ last' = [Note("connect failed") EXCEPT !.err = reason]
    /\ UNCHANGED <<vlOpen, is_connected, current_response_id, is_streaming_audio,
                   response_items, call_start_time, audio_stream_start_time,
                   voice_override_sent, voice_override_fallback_done,
                   pendingCall, now, interrupted, created>>

(* the connection is made but a send of _configure_session raises          *)
StartConfigureFails(budget) ==
    /\ pc = "new" /\ wsLoop = "accepted"
    /\ budget < Len(SessionSetup)
    /\ pc' = "failed"
    /\ wsLoop' = "done"
    /\ acsConnected' = FALSE
    /\ vlOpen' = FALSE
    /\ is_connected' = TRUE
    /\ call_start_time' = now
    /\ voice_override_sent' = TRUE
    /\ trail' = <<Connect("")>> \o Unguarded(SessionSetup, budget, 0)
    /\ last' = Note("configure failed")
    /\ UNCHANGED <<current_response_id, is_streaming_audio, response_items,
                   audio_stream_start_time, voice_override_fallback_done,
                   pendingCall, now, interrupted, created>>

(* how a handler run changes the receive loop and the turn state           *)
Finish(r) ==
    /\ current_response_id' = r.cur
    /\ is_streaming_audio' = r.streaming
    /\ response_items' = r.items
    /\ audio_stream_start_time' = r.sstart
    /\ voice_override_fallback_done' = r.fb
    /\ trail' = r.tr
    /\ vlOpen' = (vlOpen /\ \A i \in 1..Len(r.tr) : r.tr[i].kind = "up" => r.tr[i].ok)
    /\ is_connected' = IF r.raised # "" THEN FALSE ELSE is_connected
    /\ pc' = IF r.raised = "closed" THEN "stopped"
             ELSE IF r.raised = "fatal" THEN "crashed"
             ELSE IF r.await THEN "tool"
             ELSE "recv"
    /\ interrupted' = IF r.intr THEN interrupted \cup {current_response_id}
                      ELSE interrupted

(* the message types whose handler can send upstream                       *)
SendingTypes ==
    {"conversation.item.created", "response.function_call_arguments.done",
     "input_audio_buffer.speech_started", "error"}

(* one iteration of receive_messages_async on a well-formed message        *)
(* (lines 313-318)                                                         *)
HandleVoiceLiveMessage(e, budget) ==
    /\ pc = "recv" /\ is_connected
    /\ e.type = "response.created" => e.response_id \notin created
    /\ created' = IF e.type = "response.created" THEN created \cup {e.response_id}
                  ELSE created
    /\ vlOpen \/ budget = 0
    /\ budget = MaxBudget \/ e.type \in SendingTypes
    /\ LET r == handle_voice_live_message(St, e, budget) IN
         /\ budget = MaxBudget \/ budget < NumUp(r.tr)
         /\ Finish(r)
         /\ pendingCall' = IF r.await THEN e ELSE pendingCall
    /\ last' = e
    /\ UNCHANGED <<wsLoop, acsConnected, call_start_time, voice_override_sent, now>>

(* one iteration of receive_messages_async on an audio frame whose relay   *)
(* fails: send_text of the telephony socket raises                         *)
HandleAudioDeltaRelayFails(e) ==
    /\ pc = "recv" /\ is_connected /\ vlOpen
    /\ e.type = "response.audio.delta"
    /\ LET r == handle_voice_live_message([St EXCEPT !.relay = FALSE], e, MaxBudget) IN
         /\ \E i \in 1..Len(r.tr) : r.tr[i].kind = "acs"
         /\ Finish(r)
    /\ last' = e
    /\ UNCHANGED <<wsLoop, acsConnected, call_start_time, voice_override_sent, now,
                   pendingCall, created>>

(* what the awaited tool handler does: return a string, return a dict with *)
(* an "output", or raise                                                   *)
ToolOutcomes == {"str", "dict", "raise"}

(* json.dumps(result.get("output", result)) for the dict a handler returns *)
HandlerOutput(outcome) ==
    IF outcome = "str" THEN "handler text" ELSE "\"handler output\""

(* the "follow_up" of the dict a handler returns (agent_config.py 378-381) *)
HandlerFollowUp(outcome) ==
    IF outcome = "dict"
    THEN "Would you like more details about any of these recipes or search for something else?"
    ELSE ""

(* a dispatcher that lets the exception of a tool handler through to the   *)
(* receive loop                                                            *)
function_call_resume_Propagates(st, call, outcome, budget) ==
    IF outcome = "raise"
    THEN [st EXCEPT !.raised = "fatal"]
    ELSE FunctionCallDeliver(st, call.name, call.call_id, HandlerOutput(outcome), budget)

(* the rest of _handle_function_call once the handler is done              *)
(* (lines 699-746)                                                         *)
function_call_resume(st, call, outcome, budget) ==
    IF outcome = "raise"
    THEN FunctionCallExcept(st, call.name, call.call_id, budget)
    ELSE FunctionCallDeliver(st, call.name, call.call_id, HandlerOutput(outcome), budget)

(* a completion that drops the result of a call whose turn was interrupted *)
ToolCompletes_DropsInterrupted(outcome, budget) ==
    /\ pc = "tool"
    /\ vlOpen \/ budget = 0
    /\ budget = MaxBudget \/ budget < 2
    /\ Finish(IF pendingCall.response_id \in interrupted THEN St
              ELSE function_call_resume(St, pendingCall, outcome, budget))
    /\ pendingCall' = NoCall
    /\ last' = [pendingCall EXCEPT !.type = "tool." \o outcome]
    /\ UNCHANGED <<wsLoop, acsConnected, call_start_time, voice_override_sent, now,
                   created>>

ToolCompletes(outcome, budget) ==
    /\ pc = "tool"
    /\ vlOpen \/ budget = 0
    /\ budget = MaxBudget \/ budget < 2
    /\ Finish(function_call_resume(St, pendingCall, outcome, budget))
    /\ pendingCall' = NoCall
    /\ last' = [pendingCall EXCEPT !.type = "tool." \o outcome]
    /\ UNCHANGED <<wsLoop, acsConnected, call_start_time, voice_override_sent, now,
                   created>>

(* recv() raises ConnectionClosed (lines 319-322)                          *)
RecvClosed ==
    /\ pc = "recv" /\ ~vlOpen
    /\ pc' = "stopped"
    /\ is_connected' = FALSE
    /\ trail' = << >>
    /\ last' = Note("recv closed")
    /\ UNCHANGED <<wsLoop, acsConnected, vlOpen, current_response_id,
                   is_streaming_audio, response_items, call_start_time,
                   audio_stream_start_time, voice_override_sent,
                   voice_override_fallback_done, pendingCall, now, interrupted, created>>

(* json.loads(raw_message) raises: the outer except re-raises and the      *)
(* receive task ends (lines 316, 324-328)                                  *)
RecvMalformed ==
    /\ pc = "recv" /\ is_connected /\ vlOpen
    /\ pc' = "crashed"
    /\ is_connected' = FALSE
    /\ trail' = << >>
    /\ last' = Note("recv malformed")
    /\ UNCHANGED <<wsLoop, acsConnected, vlOpen, current_response_id,
                   is_streaming_audio, response_items, call_start_time,
                   audio_stream_start_time, voice_override_sent,
                   voice_override_fallback_done, pendingCall, now, interrupted, created>>

(* the voice service, or the network, closes the upstream socket           *)
VoiceLiveCloses ==
    /\ vlOpen
    /\ vlOpen' = FALSE
    /\ trail' = << >>
    /\ last' = Note("upstream closes")
    /\ UNCHANGED <<pc, wsLoop, acsConnected, is_connected, current_response_id,
                   is_streaming_audio, response_items, call_start_time,
                   audio_stream_start_time, voice_override_sent,
                   voice_override_fallback_done, pendingCall, now, interrupted, created>>

(* caller audio forwarded only while the assistant is speaking             *)
send_audio_async_Gated(audio_data) ==
    IF is_connected /\ is_streaming_audio
    THEN <<Up("input_audio_buffer.append", audio_data, "", vlOpen)>>
    ELSE << >>

(* caller audio handed to the upstream socket without looking at          *)
(* is_connected                                                            *)
send_audio_async_Unchecked(audio_data) ==
    <<Up("input_audio_buffer.append", audio_data, "", vlOpen)>>

(* send_audio_async (lines 871-882)                                        *)
send_audio_async(audio_data) ==
    IF is_connected THEN <<Up("input_audio_buffer.append", audio_data, "", vlOpen)>>
    ELSE << >>

(* ws: a text frame of kind AudioData (main.py 576-583)                    *)
AcsAudioData(audio_data) ==
    /\ wsLoop = "loop"
    /\ trail' = IF Truthy(audio_data) THEN send_audio_async(audio_data) ELSE << >>
    /\ last' = [Note("acs.AudioData") EXCEPT !.delta = audio_data]
    /\ UNCHANGED <<pc, wsLoop, acsConnected, vlOpen, is_connected,
                   current_response_id, is_streaming_audio, response_items,
                   call_start_time, audio_stream_start_time, voice_override_sent,
                   voice_override_fallback_done, pendingCall, now, interrupted, created>>

(* a StopAudio frame that also closes the relay gate                       *)
AcsStopAudio_ClosesGate ==
    /\ wsLoop = "loop"
    /\ is_streaming_audio' = FALSE
    /\ trail' = send_message_async("StopAudio", "")
    /\ last' = Note("acs.StopAudio")
    /\ UNCHANGED <<pc, wsLoop, acsConnected, vlOpen, is_connected,
                   current_response_id, response_items,
                   call_start_time, audio_stream_start_time, voice_override_sent,
                   voice_override_fallback_done, pendingCall, now, interrupted, created>>

(* ws: a text frame of kind StopAudio (main.py 584-585), stop_audio_async  *)
AcsStopAudio ==
    /\ wsLoop = "loop"
    /\ trail' = send_message_async("StopAudio", "")
    /\ last' = Note("acs.StopAudio")
    /\ UNCHANGED <<pc, wsLoop, acsConnected, vlOpen, is_connected,
                   current_response_id, is_streaming_audio, response_items,
                   call_start_time, audio_stream_start_time, voice_override_sent,
                   voice_override_fallback_done, pendingCall, now, interrupted, created>>

(* a telephony loop that ends on a frame it does not know                  *)
AcsOther_Breaks ==
    /\ wsLoop = "loop"
    /\ wsLoop' = "done"
    /\ trail' = << >>
    /\ last' = Note("acs.other")
    /\ UNCHANGED <<pc, acsConnected, vlOpen, is_connected,
                   current_response_id, is_streaming_audio, response_items,
                   call_start_time, audio_stream_start_time, voice_override_sent,
                   voice_override_fallback_done, pendingCall, now, interrupted, created>>

(* ws: any other frame is skipped (main.py 571-594)                        *)
AcsOther ==
    /\ wsLoop = "loop"
    /\ trail' = << >>
    /\ last' = Note("acs.other")
    /\ UNCHANGED <<pc, wsLoop, acsConnected, vlOpen, is_connected,
                   current_response_id, is_streaming_audio, response_items,
                   call_start_time, audio_stream_start_time, voice_override_sent,
                   voice_override_fallback_done, pendingCall, now, interrupted, created>>

(* ws: the telephony client disconnects, the loop breaks (main.py 556-565) *)
AcsDisconnect ==
    /\ wsLoop = "loop"
    /\ wsLoop' = "done"
    /\ acsConnected' = FALSE
    /\ trail' = << >>
    /\ last' = Note("acs.disconnect")
    /\ UNCHANGED <<pc, vlOpen, is_connected, current_response_id,
                   is_streaming_audio, response_items, call_start_time,
                   audio_stream_start_time, voice_override_sent,
                   voice_override_fallback_done, pendingCall, now, interrupted, created>>

(* time passes                                                             *)
Tick ==
    /\ pc = "recv"
    /\ \E t \in Instants : t > now /\ now' = t
    /\ trail' = << >>
    /\ last' = Note("tick")
    /\ UNCHANGED <<pc, wsLoop, acsConnected, vlOpen, is_connected,
                   current_response_id, is_streaming_audio, response_items,
                   call_start_time, audio_stream_start_time, voice_override_sent,
                   voice_override_fallback_done, pendingCall, interrupted, created>>

(* ----------------------- agent access token ---------------------------- *)

(* versions and path_templates of _get_agent_access_token (lines 170-176), *)
(* most likely first; AZURE_VOICE_LIVE_API_VERSION has its default value   *)
Versions == <<"2025-05-01-preview", "2024-10-01-preview">>

PathTemplates ==
    << "/openai/agents/v2/projects/p/agents/a:generateAccessToken",
       "/openai/agents/v2/projects/p/agents/a:generateToken",
       "/openai/agents/v1/projects/p/agents/a:generateAccessToken",
       "/openai/agents/v1/projects/p/agents/a:generateToken" >>

(* candidate_urls with AGENT_TOKEN_URL unset (lines 185-189): every       *)
(* template with every version, templates outermost                        *)
CandidateUrls ==
    [k \in 1..(Len(PathTemplates) * Len(Versions)) |->
        "https://agents.example"
        \o PathTemplates[((k - 1) \div Len(Versions)) + 1]
        \o "?api-version=" \o Versions[((k - 1) % Len(Versions)) + 1]]

(* what a token endpoint answers to one POST: a status and the token of    *)
(* the body, "" when the body has no token field                           *)
TokenResponses ==
    { [status |-> 200, token |-> "agent-token"],
      [status |-> 200, token |-> ""],
      [status |-> 404, token |-> ""],
      [status |-> 401, token |-> ""] }

(* the loop over candidate_urls (lines 194-223) from candidate i on;       *)
(* resp[i] is the answer to the POST to urls[i].  The RuntimeError raised  *)
(* for a status other than 404 (line 218) is raised inside the try of the  *)
(* loop body, whose except clause (219-222) records it and continues.       *)
RECURSIVE PostCandidates(_, _, _, _, _)
PostCandidates(urls, resp, i, posts, last_error_text) ==
    IF i > Len(urls)
    THEN [token |-> "", posts |-> posts,
          error |-> "Token generation failed: "
                    \o (IF Truthy(last_error_text) THEN last_error_text ELSE "Unknown error")]
    ELSE LET r == resp[i]
             text == ToString(r.status) \o " (url=" \o urls[i] \o ")"
             post(ok) == Op("post", urls[i], ToString(r.status), "", ok)
         IN IF 200 <= r.status /\ r.status < 300
            THEN IF Truthy(r.token)
                 THEN [token |-> r.token, posts |-> Append(posts, post(TRUE)), error |-> ""]
                 ELSE PostCandidates(urls, resp, i + 1, Append(posts, post(FALSE)),
                                     "Missing token field in response from " \o urls[i])
            ELSE PostCandidates(urls, resp, i + 1, Append(posts, post(FALSE)),
                                IF r.status # 404
                                THEN "Token generation failed: " \o text
                                ELSE text)

(* _get_agent_access_token (lines 144-223), with the endpoint and the      *)
(* agent identifiers configured: ACCESS_TOKEN when set, else the search    *)
get_agent_access_token(access_token, resp) ==
    IF Truthy(access_token)
    THEN [token |-> access_token, posts |-> << >>, error |-> ""]
    ELSE PostCandidates(CandidateUrls, resp, 1, << >>, "")

(* ACCESS_TOKEN of the environment                                         *)
AccessTokens == {"", "env-token"}

(* the answers of the token endpoints to the POSTs of one search; none is  *)
(* asked for when ACCESS_TOKEN is set                                      *)
TokenAnswers(access_token) ==
    IF Truthy(access_token) THEN {<< >>}
    ELSE [1..Len(CandidateUrls) -> TokenResponses]

(* start_conversation_async obtains the agent access token (line 92).      *)
(* When the search fails the RuntimeError is re-raised (140-142) and ws    *)
(* closes the telephony socket (main.py 547-552).  last records the token  *)
(* in delta and the error text in err; trail lists the POSTs made.         *)
GetAgentAccessToken ==
    /\ pc = "new" /\ wsLoop = "accepted" /\ last.type = "init"
    /\ \E access_token \in AccessTokens :
         \E resp \in TokenAnswers(access_token) :
            LET r == get_agent_access_token(access_token, resp) IN
              /\ trail' = r.posts
              /\ last' = [Note(IF Truthy(r.token) THEN "token.ok" ELSE "token.raise")
                             EXCEPT !.delta = r.token, !.err = r.error]
              /\ pc' = IF Truthy(r.token) THEN "new" ELSE "failed"
              /\ wsLoop' = IF Truthy(r.token) THEN "accepted" ELSE "done"
              /\ acsConnected' = Truthy(r.token)
    /\ UNCHANGED <<vlOpen, is_connected, current_response_id, is_streaming_audio,
                   response_items, call_start_time, audio_stream_start_time,
                   voice_override_sent, voice_override_fallback_done,
                   pendingCall, now, interrupted, created>>

(* ---------------------------- specifications --------------------------- *)

Receive(events, budgets) ==
    \E e \in events, b \in budgets : HandleVoiceLiveMessage(e, b)

ToolDone(budgets) ==
    \E o \in ToolOutcomes, b \in budgets : ToolCompletes(o, b)

Telephony ==
    \/ \E a \in {"", "pcm_in"} : AcsAudioData(a)
    \/ AcsStopAudio
    \/ AcsOther
    \/ AcsDisconnect

UpstreamFaults ==
    \/ RecvClosed
    \/ RecvMalformed
    \/ VoiceLiveCloses

(* The whole system.                                                       *)
Next ==
    \/ GetAgentAccessToken
    \/ StartConversation
    \/ \E k \in ConnectFailures : StartConnectFails(k)
    \/ \E b \in Budgets : StartConfigureFails(b)
    \/ Receive(VoiceEvents, Budgets)
    \/ \E e \in VoiceEvents : HandleAudioDeltaRelayFails(e)
    \/ ToolDone(Budgets)
    \/ UpstreamFaults
    \/ Telephony
    \/ Tick

Spec == Init /\ [][Next]_vars

(* The turn protocol: every turn message, the telephony loop, an upstream  *)
(* socket that stays open.                                                 *)
NextTurn ==
    \/ StartConversation
    \/ Receive(TurnEvents, {MaxBudget})
    \/ Telephony

SpecTurn == Init /\ [][NextTurn]_vars

(* The turn protocol over an upstream socket that may close at any point,  *)
(* also in the middle of a handler.                                        *)
NextFaults ==
    \/ StartConversation
    \/ Receive(TurnEvents, Budgets)
    \/ UpstreamFaults

SpecFaults == Init /\ [][NextFaults]_vars

(* Turn messages that do not track items, read against the clock.          *)
ClockEvents == {e \in TurnEvents : e.type \notin {"response.output_item.added"} \cup LogOnlyTypes}

NextClock ==
    \/ StartConversation
    \/ Receive(ClockEvents, {MaxBudget})
    \/ Tick

SpecClock == Init /\ [][NextClock]_vars

(* Tool calls: function-call messages among the messages that open, close *)
(* and interrupt turns, over an upstream socket that may close.            *)
ToolTurnEvents ==
    {e \in TurnEvents : e.type \in {"response.created", "response.done",
                                    "response.audio.delta", "conversation.item.created"}}

NextTools ==
    \/ StartConversation
    \/ Receive(ToolEvents \cup ToolTurnEvents, Budgets)
    \/ ToolDone(Budgets)
    \/ UpstreamFaults
    \/ \E a \in {"pcm_in"} : AcsAudioData(a)

SpecTools == Init /\ [][NextTools]_vars

(* Session establishment and teardown: a start that may fail, caller      *)
(* audio, the messages that open, close and interrupt turns, and either    *)
(* side closing.                                                           *)
CallerAudio == {"", "pcm_a", "pcm_b"}

NextSession ==
    \/ StartConversation
    \/ \E k \in ConnectFailures : StartConnectFails(k)
    \/ \E b \in Budgets : StartConfigureFails(b)
    \/ Receive(ToolTurnEvents, {MaxBudget})
    \/ UpstreamFaults
    \/ \E a \in CallerAudio : AcsAudioData(a)
    \/ AcsDisconnect

SpecSession == Init /\ [][NextSession]_vars

(* The same, with the one step the scheduler guarantees: recv() on a       *)
(* closed socket raises.  Whether messages arrive and whether a peer       *)
(* closes is up to the environment.                                        *)
SpecTeardown == SpecSession /\ WF_vars(RecvClosed)

(* A whole call over an upstream socket that stays open: tool calls among  *)
(* the messages that open, close and interrupt turns, and the telephony    *)
(* loop.                                                                   *)
NextCall ==
    \/ StartConversation
    \/ Receive(ToolEvents \cup ToolTurnEvents, {MaxBudget})
    \/ ToolDone({MaxBudget})
    \/ Telephony

SpecCall == Init /\ [][NextCall]_vars

(* Session start with token generation: every combination of answers the  *)
(* token endpoints can give, then the connection.                          *)
NextToken ==
    \/ GetAgentAccessToken
    \/ StartConversation

SpecToken == Init /\ [][NextToken]_vars

(* Error messages of the voice service among the messages that open,      *)
(* close and interrupt turns, over an upstream socket that may close.      *)
NextVoice ==
    \/ StartConversation
    \/ Receive(ErrorEvents \cup ToolTurnEvents, Budgets)
    \/ UpstreamFaults

SpecVoice == Init /\ [][NextVoice]_vars

(* The relay to the telephony socket: the messages that open, close and    *)
(* interrupt turns, audio frames whose relay may fail, and the telephony   *)
(* loop, over an upstream socket that stays open.                          *)
NextRelay ==
    \/ StartConversation
    \/ Receive(ToolTurnEvents, {MaxBudget})
    \/ \E e \in ToolTurnEvents : HandleAudioDeltaRelayFails(e)
    \/ Telephony

SpecRelay == Init /\ [][NextRelay]_vars

(* ------------------------------- claims -------------------------------- *)

HasType(t, type) == \E i \in 1..Len(t) : t[i].type = type

(* the step handled a voice-service message of one of these types          *)
Received(types) == last'.type \in types

(* C1: a response.created that arrives while another turn is current       *)
(* forces that turn to Cancelled (response.cancel goes upstream) before    *)
(* the new turn becomes current.                                           *)
C1_PriorTurnCancelledBeforeNewTurn ==
    [][ ( /\ Received({"response.created"})
          /\ created' # created
          /\ Truthy(current_response_id) )
        => HasType(trail', "response.cancel") ]_vars

(* C2: a response.audio.delta or response.done whose response id differs   *)
(* from the current turn id leaves the turn state unchanged and sends      *)
(* nothing to the telephony socket.                                        *)
C2_StaleEventIgnored ==
    [][ ( /\ Received({"response.audio.delta", "response.done"})
          /\ last'.response_id # current_response_id )
        => (turn' = turn /\ SentAcs(trail') = << >>) ]_vars

(* C3: once the interruption sequence has run for a turn, no audio delta   *)
(* tagged with that turn's id is forwarded to the telephony socket.        *)
C3_InterruptedTurnAudioDropped ==
    (last.type = "response.audio.delta" /\ last.response_id \in interrupted)
        => SentAcs(trail) = << >>

(* C5: a speech_started that arrives while a turn is current and          *)
(* streaming, 10 s or more after the call started (and 200 ms or more      *)
(* after the turn began to stream), runs the interruption: response.cancel *)
(* goes upstream and the relay gate is switched off.                       *)
C5_SpeechAfterGraceInterrupts ==
    [][ ( /\ Received({"input_audio_buffer.speech_started"})
          /\ Truthy(current_response_id) /\ is_streaming_audio
          /\ now - call_start_time >= GraceMs
          /\ audio_stream_start_time # NoTime
          /\ now - audio_stream_start_time >= MinStreamMs )
        => (HasType(trail', "response.cancel") /\ ~is_streaming_audio') ]_vars

(* C6: a speech_started that arrives less than 10 s after the call started *)
(* sends nothing and leaves the turn state and the relay gate as they were. *)
C6_SpeechInGraceIgnored ==
    [][ ( /\ Received({"input_audio_buffer.speech_started"})
          /\ now - call_start_time < GraceMs )
        => ( /\ trail' = << >>
             /\ turn' = turn
             /\ audio_stream_start_time' = audio_stream_start_time
             /\ interrupted' = interrupted ) ]_vars

(* a speech_started handled 3 s into the call while a turn is streaming    *)
C6_Witness ==
    /\ last.type = "input_audio_buffer.speech_started"
    /\ now = 3000 /\ call_start_time = 0
    /\ Truthy(current_response_id) /\ is_streaming_audio

(* the step ran the interruption sequence                                  *)
IsInterruption(t) ==
    t # << >> /\ \E i \in 1..Len(t) : t[i].kind = "set" /\ t[i].type = "is_streaming_audio"

IndexOf(t, type) == CHOOSE i \in 1..Len(t) : t[i].type = type

(* C4: a function-call message that names a function and a call id gets,  *)
(* as long as the upstream socket stays open, exactly one tool result for  *)
(* its call id followed by exactly one response.create: at once when no    *)
(* handler is awaited, and otherwise when the handler returns or raises;   *)
(* nothing is sent while the handler runs.                                 *)
RoundTrip(t, call_id) ==
    LET sent == SentUp(t) IN
    /\ Len(sent) = 2
    /\ sent[1].type = "conversation.item.create" /\ sent[1].arg = call_id
    /\ sent[2].type = "response.create"

C7_InterruptionOrder ==
    IsInterruption(trail) =>
        /\ HasType(trail, "current_response_id")
        /\ LET k == IndexOf(trail, "current_response_id") IN
             /\ k >= 4
             /\ trail[1].kind = "set" /\ trail[1].type = "is_streaming_audio"
             /\ trail[2].type = "response.cancel" /\ trail[2].arg = ""
             /\ trail[3].type = "input_audio_buffer.clear"
             /\ \A i \in 4..(k - 1) : trail[i].type = "conversation.item.truncate"
             /\ \A i \in 1..k : trail[i].kind # "acs"
        /\ current_response_id = None /\ response_items = << >>

(* an interruption that truncated two tracked items                        *)
C7_Witness ==
    /\ IsInterruption(trail)
    /\ Cardinality({i \in 1..Len(trail) : trail[i].type = "conversation.item.truncate"}) = 2

(* C8: when a send of the interruption sequence raises, every other        *)
(* command is still attempted, the turn state ends reset, and the receive  *)
(* loop goes on.                                                           *)
C8_InterruptionBestEffort ==
    [][ IsInterruption(trail')
        => ( /\ Attempts(trail')
                  = <<"response.cancel", "input_audio_buffer.clear">>
                    \o [i \in 1..Len(response_items) |-> "conversation.item.truncate"]
                    \o <<"output_audio_buffer.clear">>
             /\ current_response_id' = None
             /\ ~is_streaming_audio'
             /\ response_items' = << >>
             /\ pc' = "recv" /\ is_connected' ) ]_vars

(* an interruption whose response.cancel raised, with an item to truncate  *)
C8_Witness ==
    /\ IsInterruption(trail)
    /\ ~trail[2].ok
    /\ HasType(trail, "conversation.item.truncate")
    /\ pc = "recv" /\ current_response_id = None

(* C9: unparsable arguments get the failure result "Invalid function       *)
(* arguments received" for the call id, then a response.create, and no     *)
(* handler is invoked.                                                     *)
C9_BadArgumentsAnswered ==
    ( /\ last.type = "response.function_call_arguments.done"
      /\ Truthy(last.name) /\ Truthy(last.call_id)
      /\ last.arguments = ArgsBad
      /\ vlOpen )
    => /\ SentUp(trail)
            = << Up("conversation.item.create", last.call_id,
                    "{\"success\": false, \"error\": \"Invalid function arguments received\"}",
                    TRUE),
                 Up("response.create", "", "", TRUE) >>
       /\ \A i \in 1..Len(trail) : trail[i].kind # "call"
       /\ pc = "recv" /\ pendingCall = NoCall

(* unparsable arguments for a registered function were answered           *)
C9_Witness ==
    /\ last.type = "response.function_call_arguments.done"
    /\ last.arguments = ArgsBad /\ last.name \in RegisteredFunctions
    /\ vlOpen /\ Len(SentUp(trail)) = 2

(* C10: while a tool handler has not completed, the receive loop still     *)
(* takes the next voice-service message.                                   *)
C10_RoutingContinuesDuringToolCall ==
    pendingCall # NoCall
        => ENABLED (\E e \in ToolTurnEvents, b \in Budgets : HandleVoiceLiveMessage(e, b))

(* C11: a voice-service message that fails to decode is dropped: the       *)
(* receive loop stays running and the session stays connected, so later    *)
(* messages are still handled.                                             *)
C11_MalformedMessageDropped ==
    [][ last'.type = "recv malformed"
        => (pc' = "recv" /\ is_connected' /\ turn' = turn) ]_vars

(* C12: when either transport closes, the other one is eventually closed  *)
(* too.                                                                    *)
C12_TeardownClosesBoth ==
    /\ (~acsConnected) ~> (~vlOpen)
    /\ (wsLoop # "accepted" /\ ~vlOpen) ~> (~acsConnected)

(* C13: a step taken before the session is set up is the start itself; the *)
(* first message it sends upstream is session.update, a successful start   *)
(* sends response.create after it, and no input_audio_buffer.append is     *)
(* sent and no voice-service message is handled before.                    *)
C13_SessionStartOrdering ==
    [][ pc = "new"
        => /\ last'.type \in {"start", "connect failed", "configure failed"}
           /\ Attempts(trail') # << >> => Attempts(trail')[1] = "session.update"
           /\ ~HasType(trail', "input_audio_buffer.append")
           /\ last'.type = "start"
                => LET sent == Types(SentUp(trail')) IN
                     /\ sent # << >> /\ sent[1] = "session.update"
                     /\ \E i \in 2..Len(sent) : sent[i] = "response.create" ]_vars

(* the session was set up: configuration, greeting text, greeting turn     *)
C13_Witness ==
    /\ last.type = "start" /\ pc = "recv"
    /\ Types(SentUp(trail))
         = <<"session.update", "conversation.item.create", "response.create">>

(* C14: a connection attempt that fails with a rate-limit signal is        *)
(* followed by another attempt.                                            *)
C14_TransientFailureRetried ==
    [][ (last'.type = "connect failed" /\ last'.err = "429")
        => Cardinality({i \in 1..Len(trail') : trail'[i].kind = "connect"}) > 1 ]_vars

(* C15: a step that leaves the session failed for want of a connection is  *)
(* the failing start itself: it sends nothing upstream, closes the         *)
(* telephony socket, leaves the receive loop unstarted, and no step        *)
(* follows it.                                                             *)
C15_NoSessionAfterConnectFailure ==
    [][ (pc' = "failed" /\ ~is_connected')
        => /\ pc = "new"
           /\ \A i \in 1..Len(trail') : trail'[i].kind # "up"
           /\ ~acsConnected' /\ wsLoop' = "done" /\ ~vlOpen' ]_vars

(* the connection was refused                                              *)
C15_Witness ==
    /\ last.type = "connect failed" /\ last.err = "refused"
    /\ pc = "failed" /\ ~acsConnected

IsAudioData(o) == o.type = "AudioData"

(* the audio frames a step handed to the telephony socket                  *)
AudioOut(t) == SelectSeq(SentAcs(t), IsAudioData)

(* C17: audio reaches the telephony socket only in the step that handles   *)
(* a response.audio.delta, as exactly one AudioData carrying that delta    *)
(* (so the frames sent are a subsequence of the frames received, in        *)
(* order, none twice); and a non-empty delta of the current turn, while    *)
(* it is streaming and the telephony socket is connected, is sent.         *)
C17_OutboundRelayInOrder ==
    [][ /\ AudioOut(trail') # << >>
           => /\ Received({"response.audio.delta"})
              /\ AudioOut(trail') = <<Op("acs", "AudioData", last'.delta, "", TRUE)>>
        /\ ( /\ Received({"response.audio.delta"}) /\ Truthy(last'.delta)
             /\ last'.response_id = current_response_id
             /\ is_streaming_audio /\ acsConnected )
           => AudioOut(trail') # << >> ]_vars

(* a delta of the current, streaming turn was relayed                      *)
C17_Witness ==
    /\ last.type = "response.audio.delta"
    /\ last.response_id = current_response_id /\ is_streaming_audio
    /\ Len(AudioOut(trail)) = 1

(* C18: a function-call message of a turn that was announced and is no     *)
(* longer the current one invokes no handler.                              *)
C18_StaleToolCallDiscarded ==
    ( /\ last.type = "response.function_call_arguments.done"
      /\ last.response_id \in created
      /\ last.response_id # current_response_id )
    => \A i \in 1..Len(trail) : trail[i].kind # "call"

(* C19: when the handler of a tool call issued by an announced turn        *)
(* completes while another turn is the current one, the tool result is     *)
(* sent and no response.create follows it.                                 *)
C19_ContinuationSuppressedOnNewTurn ==
    ( /\ last.type \in {"tool.str", "tool.dict", "tool.raise"}
      /\ last.response_id \in created
      /\ Truthy(current_response_id)
      /\ current_response_id # last.response_id
      /\ vlOpen )
    => /\ HasType(SentUp(trail), "conversation.item.create")
       /\ ~HasType(SentUp(trail), "response.create")

(* C20: once the receive loop has ended on a closed transport and the      *)
(* session is marked disconnected, no turn is left current or streaming.   *)
C20_TurnCancelledOnTransportFailure ==
    (pc = "stopped" /\ ~is_connected)
        => (~is_streaming_audio /\ current_response_id = None)

(* C21: a call that names a function the registry does not know gets the  *)
(* failure result "Function <name> not found" for its call id, then one    *)
(* response.create, and no handler is invoked.                             *)
C21_UnknownFunctionAnswered ==
    ( /\ last.type = "response.function_call_arguments.done"
      /\ last.name = "no_such_function" /\ Truthy(last.call_id)
      /\ last.arguments = ArgsObject
      /\ vlOpen )
    => /\ SentUp(trail)
            = << Up("conversation.item.create", last.call_id,
                    "{\"success\": false, \"error\": \"Function no_such_function not found\"}",
                    TRUE),
                 Up("response.create", "", "", TRUE) >>
       /\ \A i \in 1..Len(trail) : trail[i].kind # "call"
       /\ pc = "recv" /\ pendingCall = NoCall

(* an unknown function was answered                                        *)
C21_Witness ==
    /\ last.type = "response.function_call_arguments.done"
    /\ last.name = "no_such_function" /\ last.arguments = ArgsObject
    /\ vlOpen /\ Len(SentUp(trail)) = 2

(* C22: a voice-service message of an unknown type changes no turn state,  *)
(* sends nothing on either socket and leaves the receive loop running.     *)
C22_UnknownTypeHarmless ==
    [][ Received(UnknownTypes)
        => ( /\ turn' = turn /\ trail' = << >>
             /\ pc' = "recv" /\ is_connected' /\ vlOpen' = vlOpen ) ]_vars

(* an unknown message arrived in the middle of a streaming turn            *)
C22_Witness ==
    /\ last.type \in UnknownTypes
    /\ Truthy(current_response_id) /\ is_streaming_audio /\ response_items # << >>
    /\ pc = "recv"

(* C23: when a handler returns a dict with a follow_up, the response.create *)
(* sent after the tool result carries the follow_up text as instructions.  *)
C23_FollowUpCarried ==
    (last.type = "tool.dict" /\ vlOpen)
    => \E i \in 1..Len(trail) :
          /\ trail[i].type = "response.create"
          /\ trail[i].arg = HandlerFollowUp("dict")

(* C24: a telephony frame that is neither AudioData nor StopAudio sends    *)
(* nothing, changes no turn state and leaves the telephony loop running.   *)
C24_OtherFrameIgnored ==
    [][ last'.type = "acs.other"
        => ( /\ trail' = << >> /\ turn' = turn
             /\ wsLoop' = "loop" /\ acsConnected' = acsConnected
             /\ pc' = pc /\ is_connected' = is_connected ) ]_vars

(* such a frame arrived in the middle of a streaming turn                  *)
C24_Witness ==
    /\ last.type = "acs.other" /\ wsLoop = "loop"
    /\ Truthy(current_response_id) /\ is_streaming_audio

(* C25: a speech-started message that arrives less than 200 ms after the   *)
(* current turn began streaming, the grace window being over, triggers no  *)
(* interruption.                                                           *)
C25_MinStreamingGuard ==
    [][ ( /\ Received({"input_audio_buffer.speech_started"})
          /\ Truthy(current_response_id) /\ is_streaming_audio
          /\ now - call_start_time >= GraceMs
          /\ audio_stream_start_time # NoTime
          /\ now - audio_stream_start_time < MinStreamMs )
        => ( /\ trail' = << >> /\ turn' = turn
             /\ interrupted' = interrupted ) ]_vars

(* speech 100 ms into a turn that began 12 s into the call                 *)
C25_Witness ==
    /\ last.type = "input_audio_buffer.speech_started"
    /\ now = 12100 /\ audio_stream_start_time = 12000 /\ call_start_time = 0
    /\ Truthy(current_response_id) /\ is_streaming_audio

(* the item ids an interruption truncated, in the order sent               *)
Truncated(t) ==
    LET IsTruncate(o) == o.kind = "up" /\ o.type = "conversation.item.truncate"
        ops == SelectSeq(t, IsTruncate)
    IN [i \in 1..Len(ops) |-> ops[i].arg]

(* C26: one interruption truncates each tracked item once, in tracking     *)
(* order, and every truncated item of an announced turn belongs to the     *)
(* turn being interrupted.                                                 *)
C26_TruncatesCurrentTurnItems ==
    [][ IsInterruption(trail')
        => /\ Truncated(trail') = response_items
           /\ \A i \in 1..Len(response_items) :
                 ItemResponse(response_items[i]) \in created
                    => ItemResponse(response_items[i]) = current_response_id ]_vars

(* C27: a response.cancelled or conversation.item.truncated that arrives   *)
(* when no turn is current, or for a turn other than the current one,      *)
(* changes no turn state and sends nothing.                                *)
C27_LateConfirmationNoOp ==
    [][ ( /\ Received({"response.cancelled", "conversation.item.truncated"})
          /\ (current_response_id = None \/ last'.response_id # current_response_id) )
        => (turn' = turn /\ trail' = << >> /\ pc' = "recv") ]_vars

(* the cancellation of an interrupted turn confirmed while the next turn   *)
(* is streaming                                                            *)
C27_Witness ==
    /\ last.type = "response.cancelled" /\ last.response_id \in interrupted
    /\ Truthy(current_response_id) /\ current_response_id # last.response_id
    /\ is_streaming_audio

(* C28: response.created makes its id the current turn and clears the      *)
(* tracked items; response.done for the current turn leaves no current id, *)
(* no streaming and no tracked items; and while no turn is current no      *)
(* audio delta is relayed.                                                 *)
C28_TurnLifecycle ==
    [][ /\ Received({"response.created"})
           => (current_response_id' = last'.response_id /\ response_items' = << >>)
        /\ (Received({"response.done"}) /\ last'.response_id = current_response_id)
           => ( /\ current_response_id' = None /\ ~is_streaming_audio'
                /\ response_items' = << >> )
        /\ (Received({"response.audio.delta"}) /\ current_response_id = None)
           => AudioOut(trail') = << >> ]_vars

(* a delta that arrived after the only turn so far had been completed      *)
C28_Witness ==
    /\ last.type = "response.audio.delta" /\ Truthy(last.delta)
    /\ created = {last.response_id} /\ interrupted = {}
    /\ current_response_id = None /\ acsConnected
    /\ trail = << >>

C30_TurnStateOwnedByReceiveLoop ==
    [][ last'.type \in {"acs.AudioData", "acs.StopAudio", "acs.other", "acs.disconnect",
                        "tool.str", "tool.dict", "tool.raise"}
        => turn' = turn ]_vars

(* a StopAudio frame handled while a turn streams and a tool handler runs  *)
C30_Witness ==
    /\ last.type = "acs.StopAudio" /\ pc = "tool"
    /\ Truthy(current_response_id) /\ is_streaming_audio

(* C31: when the awaited tool handler raises while the upstream socket is  *)
(* open, the failure result naming the function is sent for the call id,   *)
(* followed by response.create; the receive loop is then reading again     *)
(* and the session is still connected.                                     *)
C31_HandlerExceptionContained ==
    (last.type = "tool.raise" /\ vlOpen) =>
        /\ pc = "recv" /\ is_connected
        /\ SentUp(trail) =
             << Up("conversation.item.create", last.call_id,
                   "{\"success\": false, \"error\": \"Error processing " \o last.name \o "\"}",
                   TRUE),
                Up("response.create", "", "", TRUE) >>
        /\ ENABLED HandleVoiceLiveMessage(Plain("session.updated"), MaxBudget)

C31_Witness ==
    /\ last.type = "tool.raise" /\ last.name = "lookup_employee"
    /\ last.response_id \in created
    /\ pc = "recv" /\ is_connected /\ vlOpen
    /\ Len(SentUp(trail)) = 2

(* C32: the token search moves on to the next candidate only after a 404: *)
(* a POST answered with any other status outside 200..299 is the last POST *)
(* of the search, and the search fails.                                    *)
C32_OtherStatusStopsSearch ==
    last.type \in {"token.ok", "token.raise"} =>
        \A i \in 1..Len(trail) :
            trail[i].arg \notin {"200", "404"} =>
                i = Len(trail) /\ last.type = "token.raise"

(* C33: whenever the streaming flag is on, a current response id is        *)
(* tracked (every response.created carries a non-empty id).                *)
C33_StreamingImpliesCurrentId ==
    is_streaming_audio => Truthy(current_response_id)

(* a turn opened after an earlier one was interrupted is streaming under   *)
(* its id while the telephony loop runs on                                 *)
C33_Witness ==
    /\ is_streaming_audio /\ Truthy(current_response_id)
    /\ interrupted # {} /\ current_response_id \notin interrupted
    /\ last.type = "acs.StopAudio"

(* C34: a conversation.item.created for a user message handled while a    *)
(* response id is tracked runs the whole interruption sequence (cancel,    *)
(* input clear, one truncate per tracked item, reset, output clear),       *)
(* whatever the time since the call started, the time since the stream     *)
(* started and the streaming flag; handled while no id is tracked it sends *)
(* nothing and leaves the turn state as it is.                             *)
C34_UserItemInterruptsTrackedTurn ==
    [][ (last'.type = "conversation.item.created" /\ last'.role = "user")
        => IF Truthy(current_response_id)
           THEN /\ Attempts(trail') =
                     <<"response.cancel", "input_audio_buffer.clear">>
                     \o [i \in 1..Len(response_items) |-> "conversation.item.truncate"]
                     \o <<"output_audio_buffer.clear">>
                /\ current_response_id' = None
                /\ ~is_streaming_audio'
                /\ response_items' = << >>
                /\ current_response_id \in interrupted'
           ELSE /\ trail' = << >>
                /\ UNCHANGED <<turn, audio_stream_start_time, interrupted, pc>> ]_vars

(* the sequence ran inside the grace window and inside the minimum         *)
(* streaming time, with a tracked item                                     *)
C34_Witness ==
    /\ last.type = "conversation.item.created" /\ last.role = "user"
    /\ IsInterruption(trail) /\ HasType(trail, "conversation.item.truncate")
    /\ now - call_start_time < GraceMs
    /\ now - call_start_time < MinStreamMs
    /\ current_response_id = None

(* C35: a step that ran the interruption sequence leaves no current        *)
(* response id, the streaming flag off and no tracked item; and from a     *)
(* state with no current id and the flag off, every step other than a      *)
(* response.created relays no audio frame and leaves the id unset and the  *)
(* flag off.                                                               *)
C35_IdleAfterInterruption ==
    [][ /\ IsInterruption(trail')
           => ( /\ current_response_id' = None
                /\ ~is_streaming_audio'
                /\ response_items' = << >> )
        /\ (current_response_id = None /\ ~is_streaming_audio
                /\ last'.type # "response.created")
           => ( /\ AudioOut(trail') = << >>
                /\ current_response_id' = None
                /\ ~is_streaming_audio' ) ]_vars

(* an audio frame of the interrupted turn arrived before any new turn and  *)
(* was dropped                                                             *)
C35_Witness ==
    /\ last.type = "response.audio.delta" /\ Truthy(last.delta)
    /\ interrupted = {last.response_id} /\ created = interrupted
    /\ current_response_id = None /\ ~is_streaming_audio
    /\ acsConnected /\ trail = << >>

(* C36: a function-call message without a function name or without a call *)
(* id sends nothing upstream, invokes no handler and leaves the receive    *)
(* loop and the turn state as they were.                                   *)
C36_IncompleteCallIgnored ==
    [][ ( /\ last'.type = "response.function_call_arguments.done"
          /\ (~Truthy(last'.name) \/ ~Truthy(last'.call_id)) )
        => ( /\ trail' = << >>
             /\ pc' = "recv"
             /\ UNCHANGED <<turn, pendingCall, is_connected, vlOpen>> ) ]_vars

(* a call without a call id, for a registered function, during a turn      *)
C36_Witness ==
    /\ last.type = "response.function_call_arguments.done"
    /\ last.name = "lookup_employee" /\ last.call_id = ""
    /\ Truthy(current_response_id)
    /\ pc = "recv" /\ trail = << >>

(* C37: output_audio_buffer.cleared for the current response turns the     *)
(* streaming flag off and keeps the current id and the tracked items; for  *)
(* any other id it changes nothing; it sends nothing.  While the flag is   *)
(* off, every step other than a response.created relays no audio frame and *)
(* leaves the flag off.                                                    *)
C37_BufferClearedClosesGate ==
    [][ /\ last'.type = "output_audio_buffer.cleared"
           => ( /\ trail' = << >>
                /\ UNCHANGED <<current_response_id, response_items, pc>>
                /\ is_streaming_audio' =
                      IF last'.response_id = current_response_id THEN FALSE
                      ELSE is_streaming_audio )
        /\ (~is_streaming_audio /\ last'.type # "response.created")
           => (AudioOut(trail') = << >> /\ ~is_streaming_audio') ]_vars

(* an audio frame of the current turn dropped after the buffer of that     *)
(* turn was cleared                                                        *)
C37_Witness ==
    /\ last.type = "response.audio.delta" /\ Truthy(last.delta)
    /\ last.response_id = current_response_id
    /\ ~is_streaming_audio /\ interrupted = {}
    /\ acsConnected /\ trail = << >>

(* C38: an error message handled after the fallback was applied sends      *)
(* nothing and leaves the fallback applied; a fallback session.update that *)
(* was sent is remembered as applied; and after the session set-up no step *)
(* other than the handling of an error message sends a session.update.     *)
C38_FallbackAtMostOnce ==
    [][ /\ last'.type = "error"
           => ( /\ voice_override_fallback_done
                     => (trail' = << >> /\ voice_override_fallback_done')
                /\ HasType(SentUp(trail'), "session.update")
                     => (~voice_override_fallback_done /\ voice_override_fallback_done') )
        /\ last'.type \notin {"error", "start"}
           => ~HasType(trail', "session.update") ]_vars

(* a second voice error, handled over an open socket after the fallback    *)
(* was applied: nothing is sent                                            *)
C38_Witness ==
    /\ last.type = "error" /\ IsVoiceError(last.err)
    /\ voice_override_sent /\ voice_override_fallback_done
    /\ vlOpen /\ pc = "recv" /\ trail = << >>

(* C39: once the receive loop has seen the upstream connection closed, no  *)
(* step attempts an input_audio_buffer.append and the session stays        *)
(* disconnected; an AudioData frame of the caller does nothing at all and  *)
(* the telephony loop keeps reading.                                       *)
C39_NoAppendAfterUpstreamClosed ==
    [][ (pc = "stopped" /\ ~is_connected)
        => ( /\ ~HasType(trail', "input_audio_buffer.append")
             /\ ~is_connected' /\ pc' = "stopped"
             /\ last'.type = "acs.AudioData"
                   => ( /\ trail' = << >>
                        /\ wsLoop' = "loop"
                        /\ UNCHANGED <<turn, acsConnected, vlOpen>> ) ) ]_vars

(* caller audio arrived after the close was seen and was discarded         *)
C39_Witness ==
    /\ last.type = "acs.AudioData" /\ Truthy(last.delta)
    /\ pc = "stopped" /\ ~is_connected /\ ~vlOpen
    /\ wsLoop = "loop" /\ trail = << >>

(* a step failed to write a message to the telephony socket               *)
RelayFailed(t) == \E i \in 1..Len(t) : t[i].kind = "acs" /\ ~t[i].ok

(* C40: a message reaches the telephony socket only in a step that found   *)
(* the socket CONNECTED; an audio frame handled while the socket is not    *)
(* connected is dropped, with the turn state unchanged and the receive     *)
(* loop reading on; and after a relay that failed the receive loop reads   *)
(* on, connected, with the turn state unchanged.                           *)
C40_RelayOnlyWhileConnected ==
    [][ /\ SentAcs(trail') # << >> => acsConnected
        /\ (~acsConnected /\ last'.type = "response.audio.delta")
           => ( /\ trail' = << >>
                /\ pc' = "recv" /\ is_connected'
                /\ UNCHANGED turn )
        /\ RelayFailed(trail')
           => ( /\ SentAcs(trail') = << >>
                /\ pc' = "recv" /\ is_connected'
                /\ UNCHANGED turn ) ]_vars

(* an audio frame of the streaming turn dropped after the telephony client *)
(* disconnected                                                            *)
C40_Witness ==
    /\ last.type = "response.audio.delta" /\ Truthy(last.delta)
    /\ last.response_id = current_response_id /\ is_streaming_audio
    /\ ~acsConnected /\ trail = << >>
    /\ pc = "recv"

====
